---- MODULE Spec2Model ----
(***************************************************************************)
(* The request orchestration of the Creative Studio API (src/app.py), the  *)
(* thread-local connection cache (src/models/database.py) and the file     *)
(* naming of the animation producer                                        *)
(* (src/generators/animation_generator.py), as a state machine.            *)
(*                                                                         *)
(* One worker thread handles requests one after the other; the framework   *)
(* runs the teardown hook close_db after every request.  A handler is one  *)
(* action; the order of the calls it makes is kept in `trace`.             *)
(***************************************************************************)
EXTENDS Naturals, Integers, Sequences, FiniteSets, TLC

VARIABLES
    phase,          \* "import" | "generators" | "crashed" | "idle" | "teardown"
    poem_gen,       \* app.py:41,47   "unset" | "obj" | "None"
    music_gen,      \* app.py:42,47
    animation_gen,  \* app.py:43,47
    connection,     \* database.py:10  _local.connection of the worker thread:
                    \*                 "None" | "open" | "closed"
    content,        \* rows of table content (database.py:67-79)
    usage_stats,    \* rows of table usage_stats, in insertion order (database.py:84-94)
    files,          \* writes into the shared output directory: [path, req]
    nreq,           \* number of requests received so far
    request,        \* the request being handled (or handled last), with the
                    \* outcomes of the calls the environment decides
    response,       \* the response to it
    trace,          \* the calls the handler made, in order
    handed,         \* what get_db_connection did during the last step
    posted          \* the last POST /api/generate that returned a content_id:
                    \* that id and the prompt exactly as the client sent it

vars == <<phase, poem_gen, music_gen, animation_gen, connection, content,
          usage_stats, files, nreq, request, response, trace, handed, posted>>

----------------------------------------------------------------------------
(* Bounds of the model *)

MaxRequests == 2
MaxRuns == 2

(* Program constants *)

MaxPromptLen == 500
NFrames == 3

----------------------------------------------------------------------------
(* Strings.  A string is a sequence of runs [ch, n]: n >= 1 copies of a     *)
(* character class, adjacent runs of different classes.  WS is whitespace  *)
(* (what str.strip() removes), CH is any other character.                  *)

WS == "ws"
CH == "ch"

PadLens == {1}
TextLens == {1, MaxPromptLen, MaxPromptLen + 1}

Run == [ch : {WS}, n : PadLens] \cup [ch : {CH}, n : TextLens]

StringsOfRuns(k) ==
    {s \in [1..k -> Run] : \A i \in 1..(k - 1) : s[i].ch # s[i + 1].ch}

Strings == UNION {StringsOfRuns(k) : k \in 0..MaxRuns}

EmptyString == << >>

RECURSIVE StrLen(_)
StrLen(s) == IF s = << >> THEN 0 ELSE Head(s).n + StrLen(Tail(s))

RECURSIVE LStrip(_)
LStrip(s) ==
    IF s = << >> THEN s
    ELSE IF Head(s).ch = WS THEN LStrip(Tail(s)) ELSE s

RECURSIVE RStrip(_)
RStrip(s) ==
    IF s = << >> THEN s
    ELSE IF s[Len(s)].ch = WS THEN RStrip(SubSeq(s, 1, Len(s) - 1)) ELSE s

StripKeepsTrailing(s) == LStrip(s)

Strip(s) == RStrip(LStrip(s))

----------------------------------------------------------------------------
(* database.py: the thread-local connection cache *)

\* database.py:16-28.  sqlite3.connect either returns a connection, which is
\* cached, or raises, which is caught and answered with None.
get_db_connection(conn, connect_ok) ==
    IF conn = "None"
    THEN IF connect_ok
         THEN [cache |-> "open", ret |-> "open",
               call |-> [cached |-> conn, ret |-> "open", opened |-> TRUE]]
         ELSE [cache |-> "None", ret |-> "None",
               call |-> [cached |-> conn, ret |-> "None", opened |-> FALSE]]
    ELSE [cache |-> conn, ret |-> conn,
          call |-> [cached |-> conn, ret |-> conn, opened |-> FALSE]]

\* sqlite3.Connection.close: closing a closed connection does nothing; a
\* close that raises leaves the connection as it was.
CloseRaises(conn, close_raises) == close_raises /\ conn = "open"

close_db_connection_keeps_cache(conn, close_raises) ==
    IF conn # "None"
    THEN IF CloseRaises(conn, close_raises) THEN conn ELSE "closed"
    ELSE conn

\* database.py:30-37
close_db_connection(conn, close_raises) ==
    IF conn # "None"
    THEN IF CloseRaises(conn, close_raises) THEN conn ELSE "None"
    ELSE conn

----------------------------------------------------------------------------
(* Start-up: the module body of app.py *)

NoRequest == [route |-> "none"]
NoResponse == [code |-> 0]
NoPost == [content_id |-> 0, prompt |-> << >>]

Init ==
    /\ phase = "import"
    /\ poem_gen = "unset"
    /\ music_gen = "unset"
    /\ animation_gen = "unset"
    /\ connection = "None"
    /\ content = {}
    /\ usage_stats = << >>
    /\ files = {}
    /\ nreq = 0
    /\ request = NoRequest
    /\ response = NoResponse
    /\ trace = << >>
    /\ handed = << >>
    /\ posted = NoPost

\* app.py:37, database.py:56-108 and 39-54.  init_db takes a cursor on the
\* importing thread's connection; when no connection can be had get_db_cursor
\* raises, init_db re-raises and the import of app.py fails.
init_db ==
    /\ phase = "import"
    /\ \E connect_ok \in BOOLEAN :
         LET g == get_db_connection(connection, connect_ok)
         IN /\ connection' = g.cache
            /\ handed' = <<g.call>>
            /\ phase' = IF g.ret = "None" THEN "crashed" ELSE "generators"
    /\ trace' = <<"init_db">>
    /\ UNCHANGED <<poem_gen, music_gen, animation_gen, content, usage_stats,
                   files, nreq, request, response, posted>>

\* app.py:39-47.  Either the three constructors return, or one of them raises
\* and all three names are bound to None.  (Line 43 calls AnimationGenerator()
\* with no argument while animation_generator.py:2 requires output_dir, so
\* with the generators of src/ it is the second outcome; the first is the
\* service with generators that construct.)  The requests are then served
\* by the importing thread, whose cache holds init_db's connection, or by
\* another thread, whose cache is empty.
InitGenerators ==
    /\ phase = "generators"
    /\ \E constructed \in BOOLEAN :
         /\ poem_gen' = IF constructed THEN "obj" ELSE "None"
         /\ music_gen' = IF constructed THEN "obj" ELSE "None"
         /\ animation_gen' = IF constructed THEN "obj" ELSE "None"
    /\ \E same_thread \in BOOLEAN :
         connection' = IF same_thread THEN connection ELSE "None"
    /\ phase' = "idle"
    /\ trace' = <<"init_generators">>
    /\ handed' = << >>
    /\ UNCHANGED <<content, usage_stats, files, nreq, request, response, posted>>

\* app.py:49-52.  The hook runs when the request's context is popped; the
\* request and what was recorded about it are gone afterwards.
close_db ==
    /\ phase = "teardown"
    /\ \E close_raises \in BOOLEAN :
         /\ CloseRaises(connection, close_raises) = close_raises
         /\ connection' = close_db_connection(connection, close_raises)
    /\ phase' = "idle"
    /\ request' = NoRequest
    /\ response' = NoResponse
    /\ trace' = << >>
    /\ handed' = << >>
    /\ UNCHANGED <<poem_gen, music_gen, animation_gen, content, usage_stats,
                   files, nreq, posted>>

----------------------------------------------------------------------------
(* GET /api/health *)

HealthRequests ==
    [route : {"health"}, connect_ok : BOOLEAN, close_raises : BOOLEAN]

db_status_ignores_missing(ret, raised) ==
    IF raised THEN "error" ELSE "healthy"

\* app.py:73-82
db_status(ret, raised) ==
    IF ret # "None"
    THEN IF raised THEN "error" ELSE "healthy"
    ELSE "unavailable"

\* app.py:70-93
health_check ==
    /\ phase = "idle"
    /\ nreq < MaxRequests
    /\ \E req \in HealthRequests :
         LET g == get_db_connection(connection, req.connect_ok)
             raised == g.ret # "None" /\ CloseRaises(g.ret, req.close_raises)
             closed == g.ret # "None" /\ ~raised
         IN /\ (g.ret = "None" => ~req.close_raises)
            /\ request' = req
            /\ connection' = IF closed THEN "closed" ELSE g.cache
            /\ handed' = <<g.call>>
            /\ trace' = <<"get_db_connection">>
                          \o (IF g.ret # "None"
                              THEN <<IF raised THEN "close:raises" ELSE "close">>
                              ELSE << >>)
                          \o <<"respond">>
            /\ response' = [code |-> 200,
                            status |-> "healthy",
                            database |-> db_status(g.ret, raised),
                            generators |-> [poem |-> poem_gen # "None",
                                            music |-> music_gen # "None",
                                            animation |-> animation_gen # "None"]]
    /\ nreq' = nreq + 1
    /\ phase' = "teardown"
    /\ UNCHANGED <<poem_gen, music_gen, animation_gen, content, usage_stats,
                   files, posted>>

----------------------------------------------------------------------------
(* The producers *)

Producers == {"poem", "music", "animation"}

EmptyMap == [k \in {} |-> 0]

\* generators/poem_generator.py:10-21.  The text is the capitalised prompt,
\* six fixed lines and an attribution line that echoes the prompt.
PoemTemplateLines == 6

PoemGenerate(prompt) ==
    [capitalized |-> prompt, template |-> PoemTemplateLines, inspired_by |-> prompt]

PoemLines(poem) == 1 + poem.template + 1

Digits == <<"0", "1", "2", "3", "4", "5", "6", "7", "8", "9">>

NoUid == "None"

\* animation_generator.py:29   fname = f"frame_{uid or i}_{i}.png"
FrameName(uid, i) ==
    [kind |-> "frame", token |-> IF uid = NoUid THEN Digits[i + 1] ELSE uid, i |-> i]

\* animation_generator.py:41   out_fname = f"video_{uid or 'anon'}.mp4"
VideoName(uid) ==
    [kind |-> "video", token |-> IF uid = NoUid THEN "anon" ELSE uid, i |-> 0]

\* animation_generator.py:20-55.  Frame i is saved (line 31) for i = 0, 1, 2
\* and then the video is written (line 52).  fail_at names the write that
\* raises: frame fail_at, the video when fail_at = NFrames, none when
\* fail_at = NFrames + 1.
AnimationGenerate(uid, fail_at) ==
    [written |-> {FrameName(uid, i) : i \in {j \in 0..(NFrames - 1) : j < fail_at}}
                   \cup (IF fail_at > NFrames THEN {VideoName(uid)} ELSE {}),
     raised |-> fail_at <= NFrames,
     value |-> [path |-> VideoName(uid), duration |-> NFrames]]

\* app.py:149   animation_gen.generate(prompt, options.get(...)): the second
\* positional argument is poem_text; no uid is passed.
AnimationUid(id) == NoUid

----------------------------------------------------------------------------
(* POST /api/generate *)

PromptFields ==
    [kind : {"str"}, val : Strings]
      \cup {[kind |-> "missing", val |-> EmptyString],
            [kind |-> "non_str", val |-> EmptyString]}

\* is_json: the Content-Type is JSON.  body: "object" for a JSON object,
\* "malformed" for a body get_json cannot parse, "non_object" for JSON that
\* is no object.  prompt: the "prompt" member.  options_ok: the "options"
\* member is absent or an object.  The rest are the outcomes of the calls
\* the environment decides.
Req(is_json, body, prompt, options_ok, music_raises, anim_fail, save_raises) ==
    [route |-> "generate", is_json |-> is_json, body |-> body, prompt |-> prompt,
     options_ok |-> options_ok, music_raises |-> music_raises,
     anim_fail |-> anim_fail, save_raises |-> save_raises]

NoFail == NFrames + 1

\* The writes of the animation producer that are made to fail: the first
\* frame, the video, none.
AnimFailPoints == {0, NFrames, NoFail}

ParsePromptUnstripped(req) ==
    IF req.prompt.kind = "missing" THEN EmptyString ELSE req.prompt.val

\* app.py:108   prompt = data.get('prompt', '').strip()
ParsePrompt(req) ==
    Strip(IF req.prompt.kind = "missing" THEN EmptyString ELSE req.prompt.val)

ValidateNoLengthCheck(req) ==
    IF ~req.is_json THEN [outcome |-> "400", prompt |-> EmptyString]
    ELSE IF req.body = "malformed" THEN [outcome |-> "400", prompt |-> EmptyString]
    ELSE IF req.body = "non_object" THEN [outcome |-> "500", prompt |-> EmptyString]
    ELSE IF req.prompt.kind = "non_str" THEN [outcome |-> "500", prompt |-> EmptyString]
    ELSE LET prompt == ParsePrompt(req)
         IN IF prompt = EmptyString THEN [outcome |-> "400", prompt |-> prompt]
            ELSE [outcome |-> "ok", prompt |-> prompt]

\* app.py:101-116.  outcome "400": BadRequest was raised (by line 105, by
\* get_json at 107, by 113 or 116); "500": another exception was raised
\* (data.get on a non-object at 108, .strip() on a non-string at 108).
\* prompt is the value of the local variable when the try block is left.
Validate(req) ==
    IF ~req.is_json THEN [outcome |-> "400", prompt |-> EmptyString]
    ELSE IF req.body = "malformed" THEN [outcome |-> "400", prompt |-> EmptyString]
    ELSE IF req.body = "non_object" THEN [outcome |-> "500", prompt |-> EmptyString]
    ELSE IF req.prompt.kind = "non_str" THEN [outcome |-> "500", prompt |-> EmptyString]
    ELSE LET prompt == ParsePrompt(req)
         IN IF prompt = EmptyString THEN [outcome |-> "400", prompt |-> prompt]
            ELSE IF StrLen(prompt) > MaxPromptLen
                 THEN [outcome |-> "400", prompt |-> prompt]
                 ELSE [outcome |-> "ok", prompt |-> prompt]

\* What one producer block leaves behind: r is "ok", "error" (the call
\* raised) or "unavailable" (the generator is None).

\* app.py:125-134.  options.get(...) is evaluated inside the try block and
\* raises when options is no object.
PoemBlock(req, prompt) ==
    IF poem_gen = "obj"
    THEN IF req.options_ok
         THEN [r |-> "ok", value |-> PoemGenerate(prompt), written |-> {}]
         ELSE [r |-> "error", written |-> {}]
    ELSE [r |-> "unavailable", written |-> {}]

\* app.py:136-145
MusicBlock(req, prompt) ==
    IF music_gen = "obj"
    THEN IF req.options_ok /\ ~req.music_raises
         THEN [r |-> "ok", value |-> [kind |-> "music_data"], written |-> {}]
         ELSE [r |-> "error", written |-> {}]
    ELSE [r |-> "unavailable", written |-> {}]

\* app.py:147-156
AnimationBlock(req, prompt, id) ==
    IF animation_gen = "obj"
    THEN IF req.options_ok
         THEN LET a == AnimationGenerate(AnimationUid(id), req.anim_fail)
              IN IF a.raised
                 THEN [r |-> "error", written |-> a.written]
                 ELSE [r |-> "ok", value |-> a.value, written |-> a.written]
         ELSE [r |-> "error", written |-> {}]
    ELSE [r |-> "unavailable", written |-> {}]

\* app.py:131, 134, 142, 145, 153, 156: the message stored under the key.
ErrorMessage(p, block) ==
    IF block.r = "unavailable"
    THEN CASE p = "poem" -> "Poem generator not available"
           [] p = "music" -> "Music generator not available"
           [] p = "animation" -> "Animation generator not available"
    ELSE "str(e)"

\* app.py:128, 139, 150
AddResult(results, p, block) ==
    IF block.r = "ok" THEN results @@ (p :> block.value) ELSE results

\* app.py:131, 134, 142, 145, 153, 156
AddError(errors, p, block) ==
    IF block.r # "ok" THEN errors @@ (p :> ErrorMessage(p, block)) ELSE errors

TraceOf(p, block) == IF block.r = "unavailable" THEN << >> ELSE <<p>>

ProducersStopAtFirstError(req, prompt, id) ==
    LET poem == PoemBlock(req, prompt)
        music == MusicBlock(req, prompt)
        animation == AnimationBlock(req, prompt, id)
        go2 == poem.r = "ok"
        go3 == go2 /\ music.r = "ok"
    IN [results |-> LET r1 == AddResult(EmptyMap, "poem", poem)
                        r2 == IF go2 THEN AddResult(r1, "music", music) ELSE r1
                    IN IF go3 THEN AddResult(r2, "animation", animation) ELSE r2,
        errors |-> LET e1 == AddError(EmptyMap, "poem", poem)
                       e2 == IF go2 THEN AddError(e1, "music", music) ELSE e1
                   IN IF go3 THEN AddError(e2, "animation", animation) ELSE e2,
        written |-> IF go3 THEN animation.written ELSE {},
        trace |-> TraceOf("poem", poem)
                    \o (IF go2 THEN TraceOf("music", music) ELSE << >>)
                    \o (IF go3 THEN TraceOf("animation", animation) ELSE << >>)]

\* app.py:122-156: the three blocks run one after the other, each in its own
\* try.
RunProducers(req, prompt, id) ==
    LET poem == PoemBlock(req, prompt)
        music == MusicBlock(req, prompt)
        animation == AnimationBlock(req, prompt, id)
    IN [results |-> AddResult(AddResult(AddResult(EmptyMap,
                       "poem", poem), "music", music), "animation", animation),
        errors |-> AddError(AddError(AddError(EmptyMap,
                       "poem", poem), "music", music), "animation", animation),
        written |-> poem.written \cup music.written \cup animation.written,
        trace |-> TraceOf("poem", poem) \o TraceOf("music", music)
                    \o TraceOf("animation", animation)]

\* models/content.py, ContentModel.save_content: one row of table content
\* under a fresh content id, holding the prompt it was given (the columns
\* for the producers' outputs are left out).
ContentRow(id, prompt, results) == [content_id |-> id, prompt |-> prompt]

\* models/content.py, ContentModel.log_usage: one row appended to table
\* usage_stats.
log_usage(usage, id, success) ==
    Append(usage, [endpoint |-> "/api/generate", session |-> id, success |-> success])

SaveBlockUnguarded(req, id, prompt, results) ==
    IF req.save_raises
    THEN [results |-> results, content |-> content, saved |-> FALSE, escaped |-> TRUE]
    ELSE [results |-> results @@ ("content_id" :> [kind |-> "content_id", id |-> id]),
          content |-> content \cup {ContentRow(id, prompt, results)},
          saved |-> TRUE, escaped |-> FALSE]

\* app.py:158-170.  escaped: an exception left the block.
SaveBlock(req, id, prompt, results) ==
    IF req.save_raises
    THEN [results |-> results, content |-> content, saved |-> FALSE, escaped |-> FALSE]
    ELSE [results |-> results @@ ("content_id" :> [kind |-> "content_id", id |-> id]),
          content |-> content \cup {ContentRow(id, prompt, results)},
          saved |-> TRUE, escaped |-> FALSE]

\* app.py:172-182 (and the 200 of line 193).  An absent "errors" member is
\* the empty map.
BuildResponse(prompt, results, errors, id) ==
    [code |-> 200,
     status |-> IF DOMAIN errors # {} THEN "partial_success" ELSE "success",
     prompt |-> prompt, results |-> results, errors |-> errors, session_id |-> id]

\* app.py:184-193
SuccessExit(resp, usage, id) ==
    [response |-> resp, usage |-> log_usage(usage, id, TRUE),
     trace |-> <<"log_usage", "respond">>]

BadRequestExitWithoutLog(usage, id) ==
    [response |-> [code |-> 400, status |-> "error"], usage |-> usage,
     trace |-> <<"respond">>]

\* app.py:195-212
BadRequestExit(usage, id) ==
    [response |-> [code |-> 400, status |-> "error"],
     usage |-> log_usage(usage, id, FALSE),
     trace |-> <<"log_usage", "respond">>]

\* app.py:214-231
ErrorExit(usage, id) ==
    [response |-> [code |-> 500, status |-> "error"],
     usage |-> log_usage(usage, id, FALSE),
     trace |-> <<"log_usage", "respond">>]

\* app.py:96-231.  id stands for the uuid4 tokens of this request (the
\* session id of line 100 and the content id save_content generates).
generate_content(req, id) ==
    LET v == Validate(req)
    IN IF v.outcome # "ok"
       THEN LET exit == IF v.outcome = "400" THEN BadRequestExit(usage_stats, id)
                        ELSE ErrorExit(usage_stats, id)
            IN [response |-> exit.response, content |-> content, usage |-> exit.usage,
                written |-> {}, saved |-> FALSE, trace |-> <<"validate">> \o exit.trace]
       ELSE
         LET prompt == v.prompt
             p == RunProducers(req, prompt, id)
             s == SaveBlock(req, id, prompt, p.results)
             calls == <<"validate">> \o p.trace \o <<"save_content">>
             exit == IF s.escaped THEN ErrorExit(usage_stats, id)
                     ELSE SuccessExit(BuildResponse(prompt, s.results, p.errors, id),
                                      usage_stats, id)
         IN [response |-> exit.response, content |-> s.content, usage |-> exit.usage,
             written |-> p.written, saved |-> s.saved, trace |-> calls \o exit.trace]

\* The requests a client can send, with the outcomes of the calls that are
\* made for them (an outcome is chosen only for a call that is made).
RejectedRequests ==
    {Req(FALSE, "object", p, TRUE, FALSE, NoFail, FALSE) : p \in PromptFields}
      \cup {Req(TRUE, b, [kind |-> "missing", val |-> EmptyString],
                TRUE, FALSE, NoFail, FALSE) : b \in {"malformed", "non_object"}}
      \cup {r \in {Req(TRUE, "object", p, TRUE, FALSE, NoFail, FALSE) : p \in PromptFields} :
              Validate(r).outcome # "ok"}

AcceptedPrompts ==
    {p \in PromptFields :
       Validate(Req(TRUE, "object", p, TRUE, FALSE, NoFail, FALSE)).outcome = "ok"}

AcceptedRequests ==
    {Req(TRUE, "object", p, o, m, a, sv) :
       p \in AcceptedPrompts, o \in BOOLEAN, sv \in BOOLEAN,
       m \in (IF music_gen = "obj" THEN BOOLEAN ELSE {FALSE}),
       a \in (IF animation_gen = "obj" THEN AnimFailPoints ELSE {NoFail})}

GenerateRequests ==
    RejectedRequests
      \cup {r \in AcceptedRequests :
              ~r.options_ok => (~r.music_raises /\ r.anim_fail = NoFail)}

Generate ==
    /\ phase = "idle"
    /\ nreq < MaxRequests
    /\ \E req \in GenerateRequests :
         /\ LET id == nreq + 1
                out == generate_content(req, id)
            IN /\ request' = req
               /\ response' = out.response
               /\ content' = out.content
               /\ usage_stats' = out.usage
               /\ files' = files \cup {[path |-> f, req |-> id] : f \in out.written}
               /\ trace' = out.trace
               /\ posted' = IF out.saved
                             THEN [content_id |-> id, prompt |-> req.prompt.val]
                             ELSE posted
    /\ nreq' = nreq + 1
    /\ phase' = "teardown"
    /\ handed' = << >>
    /\ UNCHANGED <<poem_gen, music_gen, animation_gen, connection>>

----------------------------------------------------------------------------
(* GET /api/content/<content_id> *)

ContentRequests ==
    [route : {"content"}, content_id : 1..(MaxRequests + 1), lookup_raises : BOOLEAN]

\* models/content.py, ContentModel.get_content: the row with that content
\* id, or nothing.
get_content_rows(id) == {r \in content : r.content_id = id}

\* app.py:284-302
get_content(req) ==
    IF req.lookup_raises THEN [code |-> 500, status |-> "error"]
    ELSE IF get_content_rows(req.content_id) = {} THEN [code |-> 404, status |-> "error"]
    ELSE [code |-> 200, status |-> "success",
          content |-> CHOOSE r \in get_content_rows(req.content_id) : TRUE]

GetContent ==
    /\ phase = "idle"
    /\ nreq < MaxRequests
    /\ \E req \in ContentRequests :
         /\ request' = req
         /\ response' = get_content(req)
    /\ trace' = <<"get_content", "respond">>
    /\ nreq' = nreq + 1
    /\ phase' = "teardown"
    /\ handed' = << >>
    /\ UNCHANGED <<poem_gen, music_gen, animation_gen, connection, content,
                   usage_stats, files, posted>>

Next ==
    \/ init_db
    \/ InitGenerators
    \/ health_check
    \/ Generate
    \/ GetContent
    \/ close_db

Spec == Init /\ [][Next]_vars

----------------------------------------------------------------------------
(* What the properties below speak about *)

\* The state right after a handler of that route has returned.
Handled(route) == phase = "teardown" /\ request.route = route

\* The step in which a POST /api/generate is handled.
GenerateStep == phase = "idle" /\ phase' = "teardown" /\ request'.route = "generate"

\* The request carries a JSON object with a string prompt.
JsonObjectWithPrompt(req) ==
    req.is_json /\ req.body = "object" /\ req.prompt.kind = "str"

\* t is s without its leading and trailing whitespace.
IsStripOf(t, s) ==
    \E i \in 1..(Len(s) + 1) :
      \E j \in (i - 1)..Len(s) :
        /\ t = SubSeq(s, i, j)
        /\ \A k \in 1..(i - 1) : s[k].ch = WS
        /\ \A k \in (j + 1)..Len(s) : s[k].ch = WS
        /\ (t # << >> => t[1].ch # WS /\ t[Len(t)].ch # WS)

\* The prompt the handler accepts: 1 to 500 characters once stripped.
Accepted(req) ==
    /\ JsonObjectWithPrompt(req)
    /\ \E t \in Strings : IsStripOf(t, req.prompt.val) /\ StrLen(t) \in 1..MaxPromptLen

\* Producer p failed in the request: its generator is None or its call raised.
ProducerFailed(p, req) ==
    CASE p = "poem" -> poem_gen # "obj" \/ ~req.options_ok
      [] p = "music" -> music_gen # "obj" \/ ~req.options_ok \/ req.music_raises
      [] p = "animation" -> animation_gen # "obj" \/ ~req.options_ok
                              \/ req.anim_fail <= NFrames

GeneratorOf(p) ==
    CASE p = "poem" -> poem_gen [] p = "music" -> music_gen
      [] p = "animation" -> animation_gen

Occurrences(seq, x) == Cardinality({i \in DOMAIN seq : seq[i] = x})

----------------------------------------------------------------------------
(* C1.  For every request to POST /api/generate whose prompt is valid (1 to  *)
(* 500 characters), whatever generator availability start-up produced, the *)
(* response is HTTP 200 with status success or partial_success and         *)
(* results.poem is present and non-empty.  Stated here for prompts without *)
(* surrounding whitespace and requests whose options are well-formed.      *)
C1_ValidPromptYieldsPoem ==
    (/\ Handled("generate")
     /\ JsonObjectWithPrompt(request)
     /\ request.options_ok
     /\ IsStripOf(request.prompt.val, request.prompt.val)
     /\ StrLen(request.prompt.val) \in 1..MaxPromptLen)
    => /\ response.code = 200
       /\ response.status \in {"success", "partial_success"}
       /\ "poem" \in DOMAIN response.results
       /\ PoemLines(response.results["poem"]) > 0

(* C2 as claimed.  For the empty string or a 501-character prompt the       *)
(* endpoint returns 400 and the rows of the store after the request are    *)
(* the rows before it.                                                     *)
C2_NoRowOnRejectedPrompt ==
    [][(/\ GenerateStep
        /\ JsonObjectWithPrompt(request')
        /\ \/ request'.prompt.val = EmptyString
           \/ StrLen(request'.prompt.val) = MaxPromptLen + 1)
       => /\ response'.code = 400
          /\ content' = content
          /\ usage_stats' = usage_stats]_vars

(* C2 as amended.  For a prompt that is empty or 501 characters long once   *)
(* its leading and trailing whitespace is removed, the endpoint returns    *)
(* 400 and no content row is created; the one row added to the store is a  *)
(* usage_stats row for /api/generate with success = false.                 *)
C2_NoContentRowOnRejectedPrompt ==
    [][(/\ GenerateStep
        /\ JsonObjectWithPrompt(request')
        /\ \E t \in Strings :
             /\ IsStripOf(t, request'.prompt.val)
             /\ t = EmptyString \/ StrLen(t) = MaxPromptLen + 1)
       => /\ response'.code = 400
          /\ content' = content
          /\ usage_stats' = Append(usage_stats,
                                   [endpoint |-> "/api/generate",
                                    session |-> nreq', success |-> FALSE])]_vars

C2_Witness ==
    /\ Handled("generate")
    /\ JsonObjectWithPrompt(request)
    /\ StrLen(request.prompt.val) = MaxPromptLen + 1
    /\ IsStripOf(request.prompt.val, request.prompt.val)
    /\ response.code = 400
    /\ usage_stats # << >>

(* C3.  With a valid prompt, every producer that fails (its generator is    *)
(* None or its call raises) is recorded under its key in errors, every     *)
(* producer whose generator exists is invoked whatever the others did,     *)
(* results holds exactly the outputs of the producers that did not fail,   *)
(* and the status is partial_success if a producer failed and success if   *)
(* none did.                                                               *)
C3_ProducersIndependent ==
    (Handled("generate") /\ Accepted(request))
    => /\ response.code = 200
       /\ \A p \in Producers :
            /\ ProducerFailed(p, request) <=> p \in DOMAIN response.errors
            /\ ~ProducerFailed(p, request) <=> p \in DOMAIN response.results
            /\ GeneratorOf(p) = "obj" => Occurrences(trace, p) = 1
       /\ response.status = IF \E p \in Producers : ProducerFailed(p, request)
                            THEN "partial_success" ELSE "success"

C3_Witness ==
    /\ Handled("generate")
    /\ request.music_raises
    /\ "music" \in DOMAIN response.errors
    /\ DOMAIN response.results \cap Producers = {"poem", "animation"}
    /\ response.status = "partial_success"

(* C4 as claimed.  A request receives 400 exactly when the prompt it sent   *)
(* is missing, empty or longer than 500 characters.  Stated here for the   *)
(* requests that carry a JSON object.                                      *)
C4_BadRequestIffPromptBad ==
    (Handled("generate") /\ request.is_json /\ request.body = "object")
    => (response.code = 400
          <=> \/ request.prompt.kind = "missing"
              \/ /\ request.prompt.kind = "str"
                 /\ \/ request.prompt.val = EmptyString
                    \/ StrLen(request.prompt.val) > MaxPromptLen)

(* C4 as amended.  A request receives 400 exactly when its Content-Type is  *)
(* not JSON, or its body cannot be parsed, or its body is a JSON object    *)
(* whose prompt (the empty string when the member is missing) is, once     *)
(* leading and trailing whitespace is removed, empty or longer than 500    *)
(* characters.  A JSON body that is no object, or a prompt that is no      *)
(* string, receives 500.                                                   *)
C4_BadRequestIffRejected ==
    Handled("generate")
    => /\ response.code = 400
            <=> \/ ~request.is_json
                \/ request.body = "malformed"
                \/ /\ request.body = "object"
                   /\ request.prompt.kind \in {"str", "missing"}
                   /\ \E t \in Strings :
                        /\ IsStripOf(t, request.prompt.val)
                        /\ t = EmptyString \/ StrLen(t) > MaxPromptLen
       /\ response.code = 500
            <=> /\ request.is_json
                /\ \/ request.body = "non_object"
                   \/ request.body = "object" /\ request.prompt.kind = "non_str"

C4_Witness ==
    /\ Handled("generate")
    /\ JsonObjectWithPrompt(request)
    /\ request.prompt.val # EmptyString
    /\ StrLen(request.prompt.val) <= MaxPromptLen
    /\ response.code = 400

(* C5.  Every POST /api/generate, whatever its outcome, appends exactly one *)
(* usage record for /api/generate; the record is written after validation, *)
(* the producers and the save, and right before the response is returned;  *)
(* its success flag is false for the 400 and 500 outcomes (and true for    *)
(* 200).                                                                   *)
C5_OneUsageRecordPerRequest ==
    [][GenerateStep
       => /\ Len(usage_stats') = Len(usage_stats) + 1
          /\ SubSeq(usage_stats', 1, Len(usage_stats)) = usage_stats
          /\ LET row == usage_stats'[Len(usage_stats')]
             IN /\ row.endpoint = "/api/generate"
                /\ row.session = nreq'
                /\ row.success <=> response'.code = 200
          /\ response'.code \in {200, 400, 500}
          /\ LET n == Len(trace')
             IN /\ n >= 3
                /\ trace'[1] = "validate"
                /\ trace'[n - 1] = "log_usage"
                /\ trace'[n] = "respond"
                /\ Occurrences(trace', "log_usage") = 1
                /\ response'.code = 200 => trace'[n - 2] = "save_content"]_vars

C5_Witness ==
    /\ Handled("generate")
    /\ response.code = 500
    /\ Len(usage_stats) = 2
    /\ ~usage_stats[2].success
    /\ usage_stats[1].success

(* C6.  With a valid prompt, when save_content raises, the HTTP code, the   *)
(* status, the prompt and the errors of the response are those of the same *)
(* request with a save that succeeds (200, and success or partial_success  *)
(* by the producers' errors alone), and results differs only in having no  *)
(* content_id.                                                             *)
C6_SaveFailureSwallowed ==
    (Handled("generate") /\ Accepted(request) /\ request.save_raises)
    => LET twin == generate_content([request EXCEPT !.save_raises = FALSE], nreq).response
       IN /\ response.code = 200
          /\ twin.code = 200
          /\ response.status = twin.status
          /\ response.status = IF DOMAIN response.errors = {}
                               THEN "success" ELSE "partial_success"
          /\ response.errors = twin.errors
          /\ response.prompt = twin.prompt
          /\ "content_id" \in DOMAIN twin.results
          /\ DOMAIN response.results = DOMAIN twin.results \ {"content_id"}
          /\ \A k \in DOMAIN response.results : response.results[k] = twin.results[k]

C6_Witness ==
    /\ Handled("generate")
    /\ request.save_raises
    /\ response.code = 200
    /\ response.status = "success"
    /\ content = {}

(* C7 as claimed.  After a POST /api/generate that returned a content_id,   *)
(* GET /api/content/<content_id> returns a record whose prompt is exactly  *)
(* the prompt string that was sent.                                        *)
C7_PromptRoundTripExact ==
    (/\ Handled("content")
     /\ response.code = 200
     /\ request.content_id = posted.content_id)
    => response.content.prompt = posted.prompt

(* C7 as amended.  After a POST /api/generate that returned a content_id,   *)
(* GET /api/content/<content_id> returns (unless the lookup fails) the     *)
(* record of that id, whose prompt is the prompt that was sent with its    *)
(* leading and trailing whitespace removed.                                *)
C7_PromptRoundTripStripped ==
    (/\ Handled("content")
     /\ request.content_id = posted.content_id
     /\ ~request.lookup_raises)
    => /\ response.code = 200
       /\ response.content.content_id = posted.content_id
       /\ IsStripOf(response.content.prompt, posted.prompt)

C7_Witness ==
    /\ Handled("content")
    /\ response.code = 200
    /\ request.content_id = posted.content_id
    /\ response.content.prompt # posted.prompt

C9_HealthReportsDatabase ==
    Handled("health")
    => /\ response.code = 200
       /\ Len(handed) = 1
       /\ trace[Len(trace)] = "respond"
       /\ response.database
            = IF handed[1].ret = "None" THEN "unavailable"
              ELSE IF request.close_raises THEN "error" ELSE "healthy"
       /\ handed[1].ret = "None" <=> (handed[1].cached = "None" /\ ~request.connect_ok)

C9_Witness ==
    /\ Handled("health")
    /\ response.database = "unavailable"
    /\ nreq = 2

(* C10.  On the worker thread no closed connection is ever handed out:     *)
(* every connection get_db_connection returns (to init_db's cursor, to     *)
(* health_check) is open, and a connection is opened only when the         *)
(* thread's cache holds none, although health_check closes the connection  *)
(* it obtained and leaves it in the cache until the teardown hook runs.    *)
C10_NoClosedConnectionHandedOut ==
    /\ \A i \in DOMAIN handed :
         /\ handed[i].ret # "closed"
         /\ handed[i].opened => handed[i].cached = "None"
         /\ handed[i].cached = "open" => ~handed[i].opened /\ handed[i].ret = "open"
    /\ phase = "idle" => connection # "closed"

C10_Witness ==
    /\ Handled("health")
    /\ nreq = 2
    /\ handed[1].opened
    /\ connection = "closed"

====
